---- MODULE Spec2Model ----
(***************************************************************************)
(* A model of submit_engine.py: the SubmitEngine that sequences a WRF      *)
(* simulation as a chain of Slurm jobs.                                    *)
(*                                                                         *)
(* A file of the working directory is a sequence of length 0 (the file is  *)
(* absent) or 1 (its content).  A point in time is a tuple                 *)
(* <<day, hour, minute, second>>, the calendar date (year, month, day)     *)
(* being abstracted to a day number; datetime arithmetic is done, as by    *)
(* Python's datetime, in whole seconds.                                    *)
(***************************************************************************)
EXTENDS Integers, Sequences, FiniteSets, TLC

\* Bounds of the model.
MaxDay == 2
MaxRunDays == 1
MaxJobs == 3

NoFile == <<>>

Exists(f) == f # NoFile

-----------------------------------------------------------------------------
(* datetime / timedelta *)

\* datetime(year.., hour, minute, second) and timedelta(days, hours, minutes,
\* seconds): the number of seconds the fields stand for.
DateTime(t) == ((t[1] * 24 + t[2]) * 60 + t[3]) * 60 + t[4]

\* The fields of a datetime: .day, .hour, .minute, .second, and what
\* strftime("%Y-%m-%d_%H:%M:%S") and isoformat() print.
Fields(s) == << s \div 86400, (s % 86400) \div 3600, (s % 3600) \div 60, s % 60 >>

\* The quotient rounded down: the faulty variant of CeilDiv.
FloorDiv(a, b) == IF b > 0 THEN a \div b ELSE (-a) \div (-b)

\* math.ceil(a / b) for b # 0.
CeilDiv(a, b) == IF b > 0 THEN -((-a) \div b) ELSE -(a \div (-b))

-----------------------------------------------------------------------------
(* The source configurations, namelist.input.original *)

Hours == {0, 12}

Times == { <<d, h, 0, 0>> : d \in 0..MaxDay, h \in Hours }

RunLengths == { <<d, h, 0, 0>> : d \in -1..MaxRunDays, h \in {-12, 0, 12} }

Namelists == [ start : Times, end : Times, run : RunLengths ]

\* The configurations of the sequencing model: a plan of two runs, a plan whose
\* last run is partial, a plan of three runs, a run length of zero and a plan
\* of one run.
MainNamelists ==
    { [ start |-> <<0, 0, 0, 0>>,  end |-> <<2, 0, 0, 0>>,  run |-> <<1, 0, 0, 0>> ],
      [ start |-> <<0, 12, 0, 0>>, end |-> <<2, 0, 0, 0>>,  run |-> <<1, 0, 0, 0>> ],
      [ start |-> <<0, 12, 0, 0>>, end |-> <<2, 0, 0, 0>>,  run |-> <<0, 12, 0, 0>> ],
      [ start |-> <<0, 0, 0, 0>>,  end |-> <<1, 0, 0, 0>>,  run |-> <<0, 0, 0, 0>> ],
      [ start |-> <<0, 0, 0, 0>>,  end |-> <<1, 0, 0, 0>>,  run |-> <<1, 0, 0, 0>> ] }

-----------------------------------------------------------------------------
(* Run Plan Calculator *)

\* calculate_total_runs: ok with (num_runs, start_time, end_time, run_length),
\* or the exception raised.
calculate_total_runs(nml) ==
    LET start_time == DateTime(nml.start)
        end_time   == DateTime(nml.end)
        run_length == DateTime(nml.run)
        total_time == end_time - start_time
    IN  IF run_length = 0
        THEN [ ok |-> FALSE, err |-> "ZeroDivisionError" ]
        ELSE LET num_runs == CeilDiv(total_time, run_length)
             IN  IF num_runs <= 0
                 THEN [ ok |-> FALSE, err |-> "Exception" ]
                 ELSE [ ok |-> TRUE, num_runs |-> num_runs, start_time |-> start_time,
                        end_time |-> end_time, run_length |-> run_length ]

\* An artifact name, wrfout_d01_<time> or wrfrst_d01_<time>.
FileName(prefix, s) == << prefix, "d01", Fields(s) >>

\* The two files expected of the run that ends at second s.
FilesOfRun(s) == << FileName("wrfout", s), FileName("wrfrst", s) >>

generate_expected_files(num_runs, start_time, run_length) ==
    [ i \in 1..num_runs |-> FilesOfRun(start_time + run_length * i) ]

\* The content of .meta (created_at, the wall clock, is left out).
MetaOf(nml) ==
    LET c == calculate_total_runs(nml)
    IN  [ num_runs           |-> c.num_runs,
          start_time         |-> Fields(c.start_time),
          end_time           |-> Fields(c.end_time),
          run_length_seconds |-> c.run_length,
          expected_files     |->
              generate_expected_files(c.num_runs, c.start_time, c.run_length) ]

-----------------------------------------------------------------------------
(* The state *)

Procs == {1, 2}

VARIABLES
    nml,             \* namelist.input.original, the source configuration
    script,          \* whether the sbatch script exists in the working directory
    meta,            \* .meta, the run plan
    lock,            \* .lock
    record,          \* submit_record.txt, a sequence of lines
    namelist_input,  \* namelist.input, the working configuration
    files,           \* the artifacts present in the working directory
    nextJob,         \* the id the scheduler gives to the next job it accepts
    running,         \* the jobs squeue lists (pending or running)
    jobFiles,        \* the artifacts each running job is to write
    last,            \* the last command: what it reported and its exit status
    pc,              \* per invocation of submit() run step by step: its position
    cur,             \* ... its current_run
    jid,             \* ... the job id sbatch gave it (0: none)
    seen,            \* ... whether its lock check found a lock on a running job
    overlap          \* whether two step-by-step invocations ran at the same time

dir == << meta, lock, record, namelist_input, files >>
sched == << nextJob, running, jobFiles >>
steps == << pc, cur, jid, seen, overlap >>
vars == << nml, script, meta, lock, record, namelist_input, files,
           nextJob, running, jobFiles, last, pc, cur, jid, seen, overlap >>

\* main(): the exit status is 1 when the command raised an exception, else 0.
main_exit(raised) == IF raised THEN 1 ELSE 0

Report(op, out, raised, idx) ==
    [ op |-> op, out |-> out, exit |-> main_exit(raised), idx |-> idx ]

InitWith(configs) ==
    /\ nml \in { <<c>> : c \in configs } \cup { NoFile }
    /\ script \in BOOLEAN
    /\ meta = NoFile
    /\ lock = NoFile
    /\ record = << >>
    /\ namelist_input = NoFile
    /\ nextJob = 1
    /\ running = {}
    /\ jobFiles = [ j \in 1..MaxJobs |-> {} ]
    /\ last = Report("none", "", FALSE, -1)
    /\ pc = [ p \in Procs |-> "idle" ]
    /\ cur = [ p \in Procs |-> -1 ]
    /\ jid = [ p \in Procs |-> 0 ]
    /\ seen = [ p \in Procs |-> FALSE ]
    /\ overlap = FALSE

Init == InitWith(MainNamelists) /\ files = {}

-----------------------------------------------------------------------------
(* generate_meta *)

\* A generate_meta that never asks before it overwrites: the faulty variant of
\* generate_meta.
generate_meta_unasked(force, answer) ==
    /\ UNCHANGED << nml, script, lock, record, namelist_input, files, sched, steps >>
    /\ IF ~Exists(nml)
       THEN /\ meta' = meta
            /\ last' = Report("gen_meta", "FileNotFoundError", TRUE, -1)
       ELSE LET c == calculate_total_runs(nml[1])
            IN  IF ~c.ok
                THEN /\ meta' = meta
                     /\ last' = Report("gen_meta", c.err, TRUE, -1)
                ELSE /\ meta' = << MetaOf(nml[1]) >>
                     /\ last' = Report("gen_meta", "Generated", FALSE, -1)

\* answer: what the operator types at the prompt.
generate_meta(force, answer) ==
    /\ UNCHANGED << nml, script, lock, record, namelist_input, files, sched, steps >>
    /\ IF Exists(meta) /\ ~force /\ answer # "y"
       THEN /\ meta' = meta
            /\ last' = Report("gen_meta", "Cancelled", FALSE, -1)
       ELSE IF ~Exists(nml)
       THEN /\ meta' = meta
            /\ last' = Report("gen_meta", "FileNotFoundError", TRUE, -1)
       ELSE LET c == calculate_total_runs(nml[1])
            IN  IF ~c.ok
                THEN /\ meta' = meta
                     /\ last' = Report("gen_meta", c.err, TRUE, -1)
                ELSE /\ meta' = << MetaOf(nml[1]) >>
                     /\ last' = Report("gen_meta", "Generated", FALSE, -1)

GenMeta == \E force \in BOOLEAN, answer \in {"y", "n"} : generate_meta(force, answer)

-----------------------------------------------------------------------------
(* Progress Oracle *)

\* any() where the code has all(): the faulty variant of AllExist.
AnyExist(fs, present) == \E k \in 1..Len(fs) : fs[k] \in present

\* all((work_dir / f).exists() for f in files)
AllExist(fs, present) == \A k \in 1..Len(fs) : fs[k] \in present

\* The loop of check_progress from run_idx on: the first run one of whose files
\* is missing, and len(expected_files) when there is none.
RECURSIVE Scan(_, _, _)
Scan(expected_files, present, run_idx) ==
    IF run_idx >= Len(expected_files)
    THEN Len(expected_files)
    ELSE IF ~AllExist(expected_files[run_idx + 1], present)
         THEN run_idx
         ELSE Scan(expected_files, present, run_idx + 1)

check_progress(m, present) == Scan(m.expected_files, present, 0)

-----------------------------------------------------------------------------
(* Lock Manager, scheduler queries, audit log, Configuration Mutator *)

\* A lock that holds the run number, run_idx + 1, as the audit log does: the
\* faulty variant of create_lock.
create_lock_run_number(job_id, run_idx) ==
    << [ job_id |-> job_id, run_idx |-> run_idx + 1 ] >>

\* The content create_lock writes (timestamp and pid, unused, are left out).
create_lock(job_id, run_idx) == << [ job_id |-> job_id, run_idx |-> run_idx ] >>

\* A remove_lock that leaves the file: the faulty variant of remove_lock.
remove_lock_keeps(lk, force, answer) == lk

\* A remove_lock that never asks: the faulty variant of remove_lock for the
\* operator's confirmation.
remove_lock_unasked(lk, force, answer) == NoFile

\* remove_lock: the lock file afterwards.
remove_lock(lk, force, answer) ==
    IF ~Exists(lk) THEN lk
    ELSE IF ~force /\ answer # "y" THEN lk
    ELSE NoFile

\* squeue: "ok" when it answers, "error" when it times out or cannot be run.
Squeue == {"ok", "error"}

\* A liveness query that never reports a job, and one that reports the jobs
\* squeue does not list: the faulty variants of is_job_running.
is_job_running_never(job_id, q, listed) == FALSE

is_job_running_inverted(job_id, q, listed) == q = "ok" /\ job_id \notin listed

\* A liveness query that takes a failed squeue for a running job: the faulty
\* variant of is_job_running.
is_job_running_failsafe(job_id, q, listed) == q = "error" \/ job_id \in listed

is_job_running(job_id, q, listed) == q = "ok" /\ job_id \in listed

\* An append that starts the record file anew: the faulty variant of
\* append_record.
append_record_truncates(rec, job_id, run_idx) ==
    << [ run |-> run_idx + 1, job_id |-> job_id ] >>

\* An append that writes the 0-based run index: the faulty variant of
\* append_record for the agreement of lock and record.
append_record_zero_based(rec, job_id, run_idx) ==
    Append(rec, [ run |-> run_idx, job_id |-> job_id ])

\* The record file after append_record.
append_record(rec, job_id, run_idx) ==
    Append(rec, [ run |-> run_idx + 1, job_id |-> job_id ])

\* The window of the run after run_idx, restart set for every run: the faulty
\* variant of update_namelist.
update_namelist_next_window(m, run_idx) ==
    LET run_start == DateTime(m.start_time) + m.run_length_seconds * (run_idx + 1)
    IN  [ start |-> Fields(run_start), end |-> Fields(run_start + m.run_length_seconds),
          restart |-> TRUE ]

\* The namelist update_namelist writes for run_idx.
update_namelist(m, run_idx) ==
    LET base_start == DateTime(m.start_time)
        run_length == m.run_length_seconds
        run_start  == base_start + run_length * run_idx
        run_end    == run_start + run_length
    IN  [ start |-> Fields(run_start), end |-> Fields(run_end), restart |-> run_idx > 0 ]

\* The artifacts a job run on the working configuration w writes: the output
\* and the restart file of the end of its window.
ArtifactsOf(w) ==
    { FileName("wrfout", DateTime(w.end)), FileName("wrfrst", DateTime(w.end)) }

-----------------------------------------------------------------------------
(* submit *)

\* sbatch: "ok" when the scheduler accepts the job, "CalledProcessError" when it
\* exits non-zero, "FileNotFoundError" when it cannot be run.
Sbatch == {"ok", "CalledProcessError", "FileNotFoundError"}

\* The scheduler accepts a job that runs on the working configuration w.
Accept(w) ==
    /\ nextJob <= MaxJobs
    /\ nextJob' = nextJob + 1
    /\ running' = running \cup {nextJob}
    /\ jobFiles' = [ jobFiles EXCEPT ![nextJob] = ArtifactsOf(w) ]

submit(q, sb) ==
    /\ UNCHANGED << nml, script, meta, files, steps >>
    /\ IF Exists(lock) /\ is_job_running(lock[1].job_id, q, running)
       THEN /\ last' = Report("submit", "AlreadyRunning", FALSE, -1)
            /\ UNCHANGED << lock, record, namelist_input, sched >>
       ELSE IF ~Exists(meta)
       THEN /\ lock' = remove_lock(lock, TRUE, "")
            /\ last' = Report("submit", "NoMeta", FALSE, -1)
            /\ UNCHANGED << record, namelist_input, sched >>
       ELSE LET current_run == check_progress(meta[1], files)
            IN  IF current_run >= meta[1].num_runs
                THEN /\ lock' = remove_lock(lock, TRUE, "")
                     /\ last' = Report("submit", "AllCompleted", FALSE, -1)
                     /\ UNCHANGED << record, namelist_input, sched >>
                ELSE IF ~Exists(nml)
                THEN /\ lock' = remove_lock(lock, TRUE, "")
                     /\ last' = Report("submit", "FileNotFoundError", TRUE, current_run)
                     /\ UNCHANGED << record, namelist_input, sched >>
                ELSE /\ namelist_input' = << update_namelist(meta[1], current_run) >>
                     /\ IF ~script
                        THEN /\ lock' = remove_lock(lock, TRUE, "")
                             /\ last' = Report("submit", "ScriptNotFound", FALSE, current_run)
                             /\ UNCHANGED << record, sched >>
                        ELSE IF sb = "ok"
                        THEN /\ Accept(namelist_input'[1])
                             /\ lock' = create_lock(nextJob, current_run)
                             /\ record' = append_record(record, nextJob, current_run)
                             /\ last' = Report("submit", "Submitted", FALSE, current_run)
                        ELSE /\ lock' = remove_lock(lock, TRUE, "")
                             /\ last' = Report("submit", IF sb = "CalledProcessError"
                                                         THEN "SubmitFailed" ELSE sb,
                                               sb = "FileNotFoundError", current_run)
                             /\ UNCHANGED << record, sched >>

Submit == \E q \in Squeue, sb \in Sbatch : submit(q, sb)

-----------------------------------------------------------------------------
(* The jobs *)

Env == Report("env", "", FALSE, -1)

\* A running job writes one of its artifacts.
JobWrite ==
    \E j \in running : \E f \in jobFiles[j] \ files :
        /\ files' = files \cup {f}
        /\ last' = Env
        /\ UNCHANGED << nml, script, meta, lock, record, namelist_input, sched, steps >>

\* A running job ends, whether or not it has written its artifacts.
JobEnd ==
    \E j \in running :
        /\ running' = running \ {j}
        /\ jobFiles' = [ jobFiles EXCEPT ![j] = {} ]
        /\ last' = Env
        /\ UNCHANGED << nml, script, dir, nextJob, steps >>

-----------------------------------------------------------------------------
(* The operator's other commands *)

check_status(q, answer) ==
    /\ UNCHANGED << nml, script, meta, record, namelist_input, files, sched, steps >>
    /\ IF ~Exists(meta)
       THEN /\ lock' = lock
            /\ last' = Report("check", "NoMeta", FALSE, -1)
       ELSE LET current_run == check_progress(meta[1], files)
            IN  IF Exists(lock)
                THEN IF is_job_running(lock[1].job_id, q, running)
                     THEN /\ lock' = lock
                          /\ last' = Report("check", "Running", FALSE, current_run)
                     ELSE /\ lock' = IF answer = "y" THEN remove_lock(lock, TRUE, "") ELSE lock
                          /\ last' = Report("check", "NotRunningLockExists", FALSE, current_run)
                ELSE /\ lock' = lock
                     /\ last' = Report("check", IF current_run < meta[1].num_runs
                                                THEN "Ready" ELSE "AllCompleted",
                                       FALSE, current_run)

CheckStatus == \E q \in Squeue, answer \in {"y", "n"} : check_status(q, answer)

\* --unlock and --force-unlock
unlock(force, answer) ==
    /\ lock' = remove_lock(lock, force, answer)
    /\ last' = Report(IF force THEN "force_unlock" ELSE "unlock",
                      IF ~Exists(lock) THEN "NoLock"
                      ELSE IF Exists(lock') THEN "Cancelled" ELSE "Removed", FALSE, -1)
    /\ UNCHANGED << nml, script, meta, record, namelist_input, files, sched, steps >>

Unlock == \E answer \in {"y", "n"} : unlock(FALSE, answer)

ForceUnlock == unlock(TRUE, "")

\* scancel: "ok", "CalledProcessError" when it exits non-zero, which cancel_job
\* catches, or "FileNotFoundError" when it cannot be run, which cancel_job lets
\* through to main.
Scancel == {"ok", "CalledProcessError", "FileNotFoundError"}

\* A cancel that calls scancel without asking whether the job is running: the
\* faulty variant of cancel_job.
cancel_job_unchecked(q, sc) ==
    IF ~Exists(lock)
    THEN [ lock |-> lock, running |-> running, out |-> "NoLock" ]
    ELSE IF sc = "ok"
    THEN [ lock |-> NoFile,
           running |-> running \ {lock[1].job_id}, out |-> "Cancelled" ]
    ELSE [ lock |-> lock, running |-> running,
           out |-> IF sc = "CalledProcessError" THEN "CancelFailed" ELSE sc ]

\* What cancel_job leaves: the lock, the jobs the scheduler lists, the report.
\* A job that scancel accepted is no longer listed.
cancel_job(q, sc) ==
    IF ~Exists(lock)
    THEN [ lock |-> lock, running |-> running, out |-> "NoLock" ]
    ELSE IF ~is_job_running(lock[1].job_id, q, running)
    THEN [ lock |-> lock, running |-> running, out |-> "NotRunning" ]
    ELSE IF sc = "ok"
    THEN [ lock |-> remove_lock(lock, TRUE, ""),
           running |-> running \ {lock[1].job_id}, out |-> "Cancelled" ]
    ELSE [ lock |-> lock, running |-> running,
           out |-> IF sc = "CalledProcessError" THEN "CancelFailed" ELSE sc ]

cancel(q, sc) ==
    LET c == cancel_job(q, sc)
    IN  /\ lock' = c.lock
        /\ running' = c.running
        /\ jobFiles' = [ j \in 1..MaxJobs |-> IF j \in c.running THEN jobFiles[j] ELSE {} ]
        /\ last' = Report("cancel", c.out, c.out = "FileNotFoundError", -1)
        /\ UNCHANGED << nml, script, meta, record, namelist_input, files, nextJob, steps >>

CancelJob == \E q \in Squeue, sc \in Scancel : cancel(q, sc)

\* A reset that leaves the meta file: the faulty variant of reset.
reset_keeps_meta(q, sc) ==
    LET c == cancel_job(q, sc)
    IN  /\ lock' = c.lock
        /\ running' = c.running
        /\ jobFiles' = [ j \in 1..MaxJobs |-> IF j \in c.running THEN jobFiles[j] ELSE {} ]
        /\ meta' = meta
        /\ last' = Report("reset", c.out, c.out = "FileNotFoundError", -1)
        /\ UNCHANGED << nml, script, record, namelist_input, files, nextJob, steps >>

\* reset: cancel_job, then the meta file is removed; when cancel_job raises,
\* reset ends there and the meta file stays.
reset(q, sc) ==
    LET c == cancel_job(q, sc)
    IN  /\ lock' = c.lock
        /\ running' = c.running
        /\ jobFiles' = [ j \in 1..MaxJobs |-> IF j \in c.running THEN jobFiles[j] ELSE {} ]
        /\ meta' = IF c.out = "FileNotFoundError" THEN meta ELSE NoFile
        /\ last' = Report("reset", c.out, c.out = "FileNotFoundError", -1)
        /\ UNCHANGED << nml, script, record, namelist_input, files, nextJob, steps >>

Reset == \E q \in Squeue, sc \in Scancel : reset(q, sc)

ClearRecord ==
    /\ record' = << >>
    /\ last' = Report("clear_record", IF record # << >> THEN "Removed" ELSE "NoRecord",
                      FALSE, -1)
    /\ UNCHANGED << nml, script, meta, lock, namelist_input, files, sched, steps >>

-----------------------------------------------------------------------------
(* submit, step by step: two invocations p on the same working directory *)

Done(p) == pc' = [ pc EXCEPT ![p] = "done" ]

Goto(p, at) == pc' = [ pc EXCEPT ![p] = at ]

\* The check for the lock: the invocation returns when the job is running and
\* removes the lock when it is not.
LockCheck(p) ==
    /\ pc[p] = "idle"
    /\ overlap' = (overlap \/ \E o \in Procs \ {p} : pc[o] \notin {"idle", "done", "crashed"})
    /\ seen' = [ seen EXCEPT ![p] = Exists(lock) /\ lock[1].job_id \in running ]
    /\ IF Exists(lock) /\ is_job_running(lock[1].job_id, "ok", running)
       THEN Done(p) /\ lock' = lock
       ELSE Goto(p, "meta") /\ lock' = remove_lock(lock, TRUE, "")
    /\ UNCHANGED << nml, script, meta, record, namelist_input, files, sched, last, cur, jid >>

\* The check for the meta file and of the progress.
ProgressCheck(p) ==
    /\ pc[p] = "meta"
    /\ IF ~Exists(meta)
       THEN Done(p) /\ cur' = cur
       ELSE LET current_run == check_progress(meta[1], files)
            IN  /\ cur' = [ cur EXCEPT ![p] = current_run ]
                /\ IF current_run >= meta[1].num_runs THEN Done(p) ELSE Goto(p, "namelist")
    /\ UNCHANGED << nml, script, dir, sched, last, jid, seen, overlap >>

\* The rewrite of the working configuration.
NamelistWrite(p) ==
    /\ pc[p] = "namelist"
    /\ IF ~Exists(meta) \/ ~Exists(nml)
       THEN Done(p) /\ namelist_input' = namelist_input
       ELSE /\ namelist_input' = << update_namelist(meta[1], cur[p]) >>
            /\ Goto(p, "sbatch")
    /\ UNCHANGED << nml, script, meta, lock, record, files, sched, last, cur, jid, seen, overlap >>

\* The submission to the scheduler.
SbatchRun(p) ==
    /\ pc[p] = "sbatch"
    /\ \E sb \in Sbatch :
        IF script /\ sb = "ok"
        THEN /\ Accept(namelist_input[1])
             /\ jid' = [ jid EXCEPT ![p] = nextJob ]
             /\ Goto(p, "create_lock")
        ELSE /\ Done(p)
             /\ UNCHANGED << sched, jid >>
    /\ UNCHANGED << nml, script, dir, last, cur, seen, overlap >>

LockWrite(p) ==
    /\ pc[p] = "create_lock"
    /\ lock' = create_lock(jid[p], cur[p])
    /\ Goto(p, "append")
    /\ UNCHANGED << nml, script, meta, record, namelist_input, files, sched, last,
                    cur, jid, seen, overlap >>

RecordAppend(p) ==
    /\ pc[p] = "append"
    /\ record' = append_record(record, jid[p], cur[p])
    /\ Done(p)
    /\ UNCHANGED << nml, script, meta, lock, namelist_input, files, sched, last,
                    cur, jid, seen, overlap >>

\* The process of an invocation is killed between two of its steps; what it
\* wrote so far stays.
Crash(p) ==
    /\ pc[p] \in {"meta", "namelist", "sbatch", "create_lock", "append"}
    /\ pc' = [ pc EXCEPT ![p] = "crashed" ]
    /\ UNCHANGED << nml, script, dir, sched, last, cur, jid, seen, overlap >>

\* No other invocation is under way.
Alone(p) == \A o \in Procs \ {p} : pc[o] \in {"idle", "done", "crashed"}

\* The steps of invocations that run one after the other.
SubmitStepAlone ==
    \E p \in Procs :
        \/ Alone(p) /\ LockCheck(p)
        \/ ProgressCheck(p)
        \/ NamelistWrite(p)
        \/ SbatchRun(p)
        \/ LockWrite(p)
        \/ RecordAppend(p)

SubmitStep ==
    \E p \in Procs :
        \/ LockCheck(p)
        \/ ProgressCheck(p)
        \/ NamelistWrite(p)
        \/ SbatchRun(p)
        \/ LockWrite(p)
        \/ RecordAppend(p)

-----------------------------------------------------------------------------
(* The specifications *)

\* Two invocations of submit whose steps interleave, after plan generation and
\* with the jobs.
NextConc == GenMeta \/ SubmitStep \/ JobWrite \/ JobEnd

SpecConc == Init /\ [][NextConc]_vars


\* Every command, one at a time, and the jobs.
Next ==
    \/ GenMeta
    \/ Submit
    \/ CheckStatus
    \/ Unlock
    \/ ForceUnlock
    \/ CancelJob
    \/ Reset
    \/ ClearRecord
    \/ JobWrite
    \/ JobEnd

Spec == Init /\ [][Next]_vars

\* Plan generation alone, over every configuration of the bounded set.
InitPlan == InitWith(Namelists) /\ files = {}

SpecPlan == InitPlan /\ [][GenMeta]_vars

\* The Progress Oracle alone: a working directory that holds any of the
\* artifacts of the plan of its configuration, plan generation and check_status,
\* which reports check_progress.
PlanArtifacts(c) ==
    IF calculate_total_runs(c).ok
    THEN LET e == MetaOf(c).expected_files
         IN  { e[i][k] : i \in 1..Len(e), k \in 1..2 }
    ELSE {}

InitOracle ==
    /\ InitWith(MainNamelists)
    /\ Exists(nml)
    /\ files \in SUBSET PlanArtifacts(nml[1])

SpecOracle == InitOracle /\ [][GenMeta \/ CheckStatus]_vars

\* Plan generation, submit with a liveness query that answers, and the jobs.
SubmitLive == \E sb \in Sbatch : submit("ok", sb)

NextAuto == GenMeta \/ SubmitLive \/ JobWrite \/ JobEnd

SpecAuto == Init /\ [][NextAuto]_vars

\* Invocations of submit that run one after the other and may be killed at any
\* step, after plan generation and with the jobs.
NextCrash == GenMeta \/ SubmitStepAlone \/ (\E p \in Procs : Crash(p)) \/ JobWrite \/ JobEnd

SpecCrash == Init /\ [][NextCrash]_vars

\* A running job that has written every artifact of its run ends.
JobFinish ==
    \E j \in running :
        /\ jobFiles[j] \subseteq files
        /\ running' = running \ {j}
        /\ jobFiles' = [ jobFiles EXCEPT ![j] = {} ]
        /\ last' = Env
        /\ UNCHANGED << nml, script, dir, nextJob, steps >>

\* submit() with a liveness query that answers and a scheduler that accepts.
SubmitOk == submit("ok", "ok")

\* Plan generation, submit() invoked again and again with a scheduler that
\* accepts every job, and jobs that write every artifact of their run and then
\* end; the source configuration and the job script exist.
InitLive == InitWith(MainNamelists) /\ Exists(nml) /\ script /\ files = {}

NextLive == GenMeta \/ SubmitOk \/ JobWrite \/ JobFinish

SpecLive ==
    /\ InitLive
    /\ [][NextLive]_vars
    /\ WF_vars(SubmitOk)
    /\ WF_vars(JobWrite)
    /\ WF_vars(JobFinish)

\* Every command and the jobs, with an operator who edits the source
\* configuration between commands, so that a regenerated plan differs from the
\* plan it replaces: two plans of one run, of different start and run length.
EditNamelists ==
    { [ start |-> <<0, 0, 0, 0>>,  end |-> <<1, 0, 0, 0>>, run |-> <<1, 0, 0, 0>> ],
      [ start |-> <<0, 12, 0, 0>>, end |-> <<1, 0, 0, 0>>, run |-> <<0, 12, 0, 0>> ] }

EditNamelist ==
    /\ nml' \in { <<c>> : c \in EditNamelists } \ { nml }
    /\ last' = Report("edit", "", FALSE, -1)
    /\ UNCHANGED << script, dir, sched, steps >>

InitEdit == InitWith(EditNamelists) /\ Exists(nml) /\ script /\ files = {}

NextEdit == Next \/ EditNamelist

SpecEdit == InitEdit /\ [][NextEdit]_vars

-----------------------------------------------------------------------------
(* The properties *)

\* C1: over submit() invocations that run one at a time with a liveness query
\* that answers, and job terminations, at most one submitted job is listed by
\* the scheduler at any time, and it is the job of the lock.
C1_OneInFlight ==
    /\ Cardinality(running) <= 1
    /\ running # {} => Exists(lock) /\ running = { lock[1].job_id }

\* A second job was submitted after the first ended, and it is running.
C1_Witness ==
    /\ nextJob >= 3
    /\ running = { nextJob - 1 }
    /\ last.op = "submit"

\* The run index the Progress Oracle gives, stated without the loop: the least
\* run one of whose files is missing.
FirstIncomplete(m, present) ==
    LET n == m.num_runs
        missing == { i \in 0..(n - 1) :
                        \E k \in 1..Len(m.expected_files[i + 1]) :
                            m.expected_files[i + 1][k] \notin present }
    IN  IF missing = {} THEN n
        ELSE CHOOSE i \in missing : \A o \in missing : i <= o

LockedLive == Exists(lock) /\ lock[1].job_id \in running

LockedStale == Exists(lock) /\ lock[1].job_id \notin running

C3_IdempotentUnderLock ==
    [][ (LockedLive /\ SubmitLive) =>
            /\ UNCHANGED << meta, lock, record, namelist_input, files >>
            /\ UNCHANGED << nextJob, running, jobFiles >>
            /\ last'.out = "AlreadyRunning"
            /\ last'.exit = 0 ]_vars

\* submit() was called on the lock of the one job submitted, and reported it.
C3_Witness ==
    /\ last.op = "submit"
    /\ last.out = "AlreadyRunning"
    /\ LockedLive
    /\ nextJob = 2

\* The case of C4: a lock whose job is not running, a plan, runs left to do.
StaleAndPending ==
    /\ LockedStale
    /\ Exists(meta)
    /\ check_progress(meta[1], files) < meta[1].num_runs

\* C4 as claimed: from a stale lock with a plan and runs left, submit() ends
\* with the lock of a newly submitted job for the current run.
C4_ReconcileEndsLocked ==
    [][ (StaleAndPending /\ Submit) =>
            /\ lock' = << [ job_id |-> nextJob, run_idx |-> FirstIncomplete(meta[1], files) ] >>
            /\ nextJob \in running' ]_vars

\* C4 as amended: from a stale lock with a plan and runs left, submit() removes
\* the stale lock, without asking, and rewrites the working configuration for
\* the current run; when the script exists and sbatch accepts the job it ends
\* with the lock and the audit entry of the new job for the current run, and
\* otherwise with no lock, no new audit entry and no job.
C4_Reconcile ==
    [][ (StaleAndPending /\ Submit) =>
            LET k == FirstIncomplete(meta[1], files)
            IN  /\ last'.idx = k
                /\ lock' # lock
                /\ Exists(namelist_input') /\ namelist_input'[1].restart = (k > 0)
                /\ ((script /\ \E q \in Squeue : submit(q, "ok")) =>
                        /\ lock' = << [ job_id |-> nextJob, run_idx |-> k ] >>
                        /\ nextJob \in running'
                        /\ record' = Append(record, [ run |-> k + 1, job_id |-> nextJob ])
                        /\ last'.out = "Submitted")
                /\ (last'.out # "Submitted" =>
                        /\ lock' = NoFile
                        /\ record' = record
                        /\ UNCHANGED << nextJob, running, jobFiles >>) ]_vars

\* A second job was submitted over the lock of the first, which had ended.
C4_Witness ==
    /\ last.op = "submit"
    /\ last.out = "Submitted"
    /\ nextJob = 3
    /\ lock = << [ job_id |-> 2, run_idx |-> last.idx ] >>
    /\ 1 \notin running

\* The case of C5: a plan all of whose runs have their artifacts.
Complete == Exists(meta) /\ check_progress(meta[1], files) = meta[1].num_runs

\* C5 as claimed: when the sequence is complete submit() changes nothing and
\* reports completion, whatever the lock.
C5_CompleteNoOp ==
    [][ (Complete /\ Submit) =>
            /\ UNCHANGED << meta, lock, record, namelist_input, files >>
            /\ UNCHANGED << nextJob, running, jobFiles >>
            /\ last'.out = "AllCompleted" ]_vars

\* C5 as amended: when the sequence is complete submit() submits nothing and
\* leaves the plan, the audit log, the working configuration and the artifacts
\* as they are; without a lock it reports completion; with the lock of a job
\* that is not running it removes that lock and reports completion; with the
\* lock of a job the liveness query reports running it keeps the lock and
\* reports in-progress, not completion.
C5_CompleteByLockState ==
    [][ (Complete /\ Submit) =>
            /\ UNCHANGED << meta, record, namelist_input, files >>
            /\ UNCHANGED << nextJob, running, jobFiles >>
            /\ last'.exit = 0
            /\ (~Exists(lock) => lock' = lock /\ last'.out = "AllCompleted")
            /\ (LockedStale => lock' = NoFile /\ last'.out = "AllCompleted")
            /\ ((LockedLive /\ SubmitLive) =>
                    lock' = lock /\ last'.out = "AlreadyRunning")
            /\ ((LockedLive /\ ~SubmitLive) =>
                    lock' = NoFile /\ last'.out = "AllCompleted") ]_vars

\* submit() reported completion and left no lock.
C5_Witness ==
    /\ last.op = "submit"
    /\ last.out = "AllCompleted"
    /\ Complete
    /\ ~Exists(lock)
    /\ nextJob >= 3

\* C6: a submit() whose sbatch call fails leaves no lock, appends no audit
\* entry, submits no job and keeps the plan and the artifacts; and the submit()
\* that follows it attempts the same run index.
C6_FailedSubmitRetryable ==
    [][ /\ ((last'.out = "SubmitFailed" /\ \E q \in Squeue : submit(q, "CalledProcessError")) =>
                /\ lock' = NoFile
                /\ record' = record
                /\ UNCHANGED << meta, files, nextJob, running, jobFiles >>
                /\ last'.idx = FirstIncomplete(meta'[1], files'))
        /\ ((last.op = "submit" /\ last.out = "SubmitFailed" /\ Submit) =>
                /\ last'.out \in {"Submitted", "SubmitFailed", "FileNotFoundError"}
                /\ last'.idx = last.idx) ]_vars

\* sbatch failed on a submit() that found the lock of an ended job.
C6_Witness ==
    /\ last.op = "submit"
    /\ last.out = "SubmitFailed"
    /\ nextJob = 2
    /\ ~Exists(lock)
    /\ Len(record) = 1

\* C7 as claimed: a submit() that finds no plan, no submission script or a
\* failing sbatch ends with a non-zero exit status.
C7_FailuresExitNonZero ==
    (last.op = "submit" /\ last.out \in {"NoMeta", "ScriptNotFound", "SubmitFailed",
                                        "FileNotFoundError"})
        => last.exit # 0

\* C8: check_progress gives the least run index one of whose expected files is
\* missing, and num_runs when none is; the result is in 0..num_runs.
C8_ProgressOracle ==
    (last.op = "check" /\ last.out # "NoMeta") =>
        /\ last.idx \in 0..meta[1].num_runs
        /\ last.idx = FirstIncomplete(meta[1], files)
        /\ \A i \in 0..(last.idx - 1) :
               \A k \in 1..2 : meta[1].expected_files[i + 1][k] \in files
        /\ last.idx < meta[1].num_runs =>
               \E k \in 1..2 : meta[1].expected_files[last.idx + 1][k] \notin files

\* Run 0 is complete, run 1 is not and the files of run 2 are there: the
\* oracle says 1.
C8_Witness ==
    /\ last.op = "check"
    /\ Exists(meta)
    /\ meta[1].num_runs = 3
    /\ last.idx = 1
    /\ \A k \in 1..2 : meta[1].expected_files[3][k] \in files
    /\ \E k \in 1..2 : meta[1].expected_files[2][k] \in files

\* The configuration is one of C9: the end after the start, a positive run length.
ValidPeriod(c) == DateTime(c.end) > DateTime(c.start) /\ DateTime(c.run) > 0

\* C9: for end_time > start_time and run_duration > 0 plan generation succeeds,
\* num_runs is the least n with n * run_duration >= end_time - start_time, and
\* expected_files has num_runs entries, entry i named after the time
\* start_time + run_duration * (i + 1).
C9_TotalRuns ==
    (Exists(nml) /\ ValidPeriod(nml[1]) /\ last.op = "gen_meta") =>
        LET start == DateTime(nml[1].start)
            span  == DateTime(nml[1].end) - start
            run   == DateTime(nml[1].run)
        IN  /\ last.out \in {"Generated", "Cancelled"}
            /\ last.exit = 0
            /\ Exists(meta)
            /\ meta[1].num_runs * run >= span
            /\ (meta[1].num_runs - 1) * run < span
            /\ Len(meta[1].expected_files) = meta[1].num_runs
            /\ \A i \in 0..(meta[1].num_runs - 1) :
                   \A k \in 1..Len(meta[1].expected_files[i + 1]) :
                       DateTime(meta[1].expected_files[i + 1][k][3]) = start + run * (i + 1)

\* A plan whose last run is partial: the period is no multiple of the run length.
C9_Witness ==
    /\ Exists(nml) /\ ValidPeriod(nml[1])
    /\ Exists(meta)
    /\ meta[1].num_runs >= 2
    /\ (DateTime(nml[1].end) - DateTime(nml[1].start)) % DateTime(nml[1].run) # 0

\* C10 as claimed: for end_time <= start_time or run_duration <= 0 plan
\* generation fails and no plan is written.
C10_DegenerateRejected ==
    (Exists(nml) /\ ~ValidPeriod(nml[1])) =>
        /\ ~Exists(meta)
        /\ last.op = "gen_meta" => last.exit # 0

\* C11 as claimed: a create_lock made while a lock file exists leaves that lock
\* as it is.
C11_AcquireKeepsLock ==
    [][ \A p \in Procs : (Exists(lock) /\ LockWrite(p)) => lock' = lock ]_vars

\* submit() with a liveness query that fails.
SubmitQueryFails == \E sb \in Sbatch : submit("error", sb)

\* C12: when squeue fails, is_job_running is false: a submit() made on the lock
\* of a job that is still running does not stop at the lock; it removes it and
\* goes on as for a stale lock, and where a plan has runs left, the script exists
\* and sbatch accepts the job, it submits a second job beside the running one.
C12_QueryFailureProceeds ==
    [][ (LockedLive /\ SubmitQueryFails) =>
            /\ last'.out # "AlreadyRunning"
            /\ lock' # lock
            /\ lock[1].job_id \in running'
            /\ ~Exists(meta) => (last'.out = "NoMeta" /\ lock' = NoFile /\ last'.exit = 0)
            /\ (Exists(meta) /\ FirstIncomplete(meta[1], files) < meta[1].num_runs
                  /\ script /\ submit("error", "ok")) =>
                    /\ running' = running \cup {nextJob}
                    /\ lock' = << [ job_id |-> nextJob,
                                    run_idx |-> FirstIncomplete(meta[1], files) ] >>
                    /\ last'.out = "Submitted"
                    /\ last'.exit = 0 ]_vars

\* A job was submitted beside the running job of the lock.
C12_Witness ==
    /\ last.op = "submit"
    /\ last.out = "Submitted"
    /\ Exists(lock)
    /\ lock[1].job_id = 2
    /\ running = {1, 2}
    /\ Len(record) = 2

IsPrefix(s, t) == Len(s) <= Len(t) /\ SubSeq(t, 1, Len(s)) = s

\* C13: the record file is append-only: every command but clear_record leaves
\* the entries already written as they are, adding at most one entry at the
\* end, and only submit adds one.
C13_RecordAppendOnly ==
    [][ last'.op # "clear_record" =>
            /\ IsPrefix(record, record')
            /\ Len(record') <= Len(record) + 1
            /\ record' # record => last'.op = "submit" ]_vars

\* A second entry was appended behind the first.
C13_Witness ==
    /\ Len(record) = 2
    /\ last.op = "submit"
    /\ last.out = "Submitted"
    /\ record[1].job_id = 1

\* C14 as claimed: a cancel made while a lock exists, whose scancel does not
\* fail, leaves no lock, whether or not the job of the lock was running; a
\* cancel whose scancel fails keeps the lock.
C14_CancelAlwaysUnlocks ==
    [][ (Exists(lock) /\ CancelJob) =>
            IF last'.out \in {"CancelFailed", "FileNotFoundError"}
            THEN lock' = lock
            ELSE lock' = NoFile ]_vars

\* C14: a cancel made while a lock exists removes the lock, and ends the job,
\* exactly when squeue lists the job of the lock and scancel succeeds; when the
\* job is not listed or squeue fails, scancel is not called and the lock is
\* kept, as it is when scancel fails.
C14_CancelUnlocksLiveJob ==
    [][ \A q \in Squeue, sc \in Scancel :
          (Exists(lock) /\ cancel(q, sc)) =>
            IF q = "ok" /\ lock[1].job_id \in running
            THEN IF sc = "ok"
                 THEN /\ lock' = NoFile
                      /\ running' = running \ {lock[1].job_id}
                      /\ last'.out = "Cancelled"
                 ELSE /\ lock' = lock
                      /\ running' = running
                      /\ last'.out \in {"CancelFailed", "FileNotFoundError"}
            ELSE /\ lock' = lock
                 /\ running' = running
                 /\ last'.out = "NotRunning" ]_vars

\* A cancel found the job of the lock not running and kept the lock.
C14_Witness ==
    /\ last.op = "cancel"
    /\ last.out = "NotRunning"
    /\ Exists(lock)
    /\ lock[1].job_id \notin running

\* C15: the plan file changes only by generate_meta and reset. submit,
\* check_status, both unlocks, cancel and clear_record leave it as it is;
\* generate_meta on an existing plan leaves it as it is when the operator denies
\* the prompt and force is not set, and replaces it only with force or the
\* answer y; an existing plan is deleted by reset alone.
C15_PlanImmutable ==
    [][ meta' # meta =>
          /\ ~(Submit \/ CheckStatus \/ Unlock \/ ForceUnlock \/ CancelJob \/ ClearRecord)
          /\ GenMeta \/ Reset
          /\ Exists(meta) => ~generate_meta(FALSE, "n")
          /\ (Exists(meta) /\ GenMeta) =>
                /\ Exists(meta')
                /\ Exists(nml)
                /\ meta' = << MetaOf(nml[1]) >>
                /\ \E force \in BOOLEAN, answer \in {"y", "n"} :
                      (force \/ answer = "y") /\ generate_meta(force, answer)
          /\ (Exists(meta) /\ ~Exists(meta')) => Reset ]_vars

\* The plan under which a job was submitted (its working configuration starts
\* at day 0, 0:00) was replaced by the plan that starts at 12:00.
C15_Witness ==
    /\ last.op = "gen_meta"
    /\ last.out = "Generated"
    /\ Exists(meta)
    /\ meta[1].start_time = <<0, 12, 0, 0>>
    /\ Exists(lock)
    /\ Exists(namelist_input)
    /\ namelist_input[1].start = <<0, 0, 0, 0>>

\* submit() got as far as update_namelist: it reports the run index and the
\* source configuration exists.
NamelistWritten == Exists(nml) /\ last'.idx >= 0

\* C16: the working configuration update_namelist writes for run index i has
\* the window [start_time + i * run_length, start_time + (i + 1) * run_length)
\* of the plan and restart = (i > 0); i is below num_runs; the source
\* configuration is not written; the result depends on the plan and i alone, so
\* a submit() that writes for the same i again writes the same file, and a
\* submit() that does not reach update_namelist leaves the file as it is.
C16_UpdateNamelist ==
    [][ (last'.op = "submit" /\ Submit) =>
          /\ nml' = nml
          /\ ~NamelistWritten => namelist_input' = namelist_input
          /\ NamelistWritten =>
                LET i          == last'.idx
                    start_time == DateTime(meta[1].start_time)
                    run_length == meta[1].run_length_seconds
                IN  /\ i < meta[1].num_runs
                    /\ meta[1].start_time = nml[1].start
                    /\ run_length = DateTime(nml[1].run)
                    /\ Exists(namelist_input')
                    /\ DateTime(namelist_input'[1].start) = start_time + i * run_length
                    /\ DateTime(namelist_input'[1].end) = start_time + (i + 1) * run_length
                    /\ namelist_input'[1].start = Fields(start_time + i * run_length)
                    /\ namelist_input'[1].end = Fields(start_time + (i + 1) * run_length)
                    /\ namelist_input'[1].restart = (i > 0) ]_vars

\* The working configuration of the third run of a plan of 12-hour runs that
\* starts at day 0, 12:00.
C16_Witness ==
    /\ last.op = "submit"
    /\ last.idx = 2
    /\ Exists(namelist_input)
    /\ namelist_input[1].start = <<1, 12, 0, 0>>
    /\ namelist_input[1].end = <<2, 0, 0, 0>>
    /\ namelist_input[1].restart

\* C17 as claimed: with invocations of submit() that run one after the other
\* and are killed at any step, at most one submitted job is listed by the
\* scheduler at any time, and a job is submitted for a run only when the
\* artifacts of every earlier run exist.
C17_CrashTolerant ==
    /\ Cardinality(running) <= 1
    /\ \A p \in Procs :
          jid[p] # 0 =>
              \A i \in 0..(cur[p] - 1) :
                  \A k \in 1..Len(meta[1].expected_files[i + 1]) :
                      meta[1].expected_files[i + 1][k] \in files

\* Every artifact of every run of the plan exists.
AllRunsDone == Exists(meta) /\ FirstIncomplete(meta[1], files) = meta[1].num_runs

LockMatchesRecord ==
    Exists(lock) =>
        /\ record # << >>
        /\ record[Len(record)].job_id = lock[1].job_id
        /\ record[Len(record)].run = lock[1].run_idx + 1

\* C19: a submit() has at most one job accepted by the scheduler; when one is
\* accepted, the lock and one new record entry carry its job id and the run
\* index check_progress gave at the call, which is below num_runs; when none is
\* accepted no lock is written and nothing is appended. Hence a lock that
\* exists agrees with the last entry of the record: it does before the first
\* command, and every command but clear_record, run one at a time, keeps the
\* agreement.
C19_OneSubmissionRecorded ==
    [][ /\ (last'.op = "submit" /\ Submit) =>
              /\ nextJob' \in {nextJob, nextJob + 1}
              /\ nextJob' = nextJob + 1 =>
                    LET k == FirstIncomplete(meta[1], files)
                    IN  /\ k < meta[1].num_runs
                        /\ running' = running \cup {nextJob}
                        /\ lock' = << [ job_id |-> nextJob, run_idx |-> k ] >>
                        /\ record' = record \o << [ run |-> k + 1, job_id |-> nextJob ] >>
                        /\ last'.out = "Submitted"
              /\ nextJob' = nextJob =>
                    /\ running' = running
                    /\ record' = record
                    /\ lock' \in {lock, NoFile}
                    /\ last'.out # "Submitted"
        /\ last.op = "none" => LockMatchesRecord
        /\ (LockMatchesRecord /\ last'.op # "clear_record") => LockMatchesRecord' ]_vars

\* A second job was submitted: its lock and the last record entry agree.
C19_Witness ==
    /\ last.op = "submit"
    /\ last.out = "Submitted"
    /\ lock = << [ job_id |-> 2, run_idx |-> 1 ] >>
    /\ record[Len(record)] = [ run |-> 2, job_id |-> 2 ]
    /\ Len(record) = 2

\* The liveness query q reports the job of the lock as running.
ConfirmedLive(q) == q = "ok" /\ lock[1].job_id \in running

\* C20: a step that removes the lock is a submit() that did not find the job of
\* the lock running, a forced unlock, a cancel (alone or in reset) whose scancel
\* succeeded, an unlock answered y, or a check_status answered y that did not
\* find the job running. An unlock or a check_status answered n keeps the lock,
\* check_status keeps the lock of a job it finds running whatever the answer,
\* and check_status changes nothing but the lock: no job, plan, record, working
\* or source configuration.
C20_LockRemoval ==
    [][ /\ (Exists(lock) /\ ~Exists(lock')) =>
              \/ /\ last'.op = "submit"
                 /\ \E q \in Squeue, sb \in Sbatch : submit(q, sb) /\ ~ConfirmedLive(q)
              \/ last'.op = "force_unlock" /\ ForceUnlock
              \/ last'.op = "cancel" /\ last'.out = "Cancelled" /\ CancelJob
              \/ last'.op = "reset" /\ last'.out = "Cancelled" /\ Reset
              \/ last'.op = "unlock" /\ unlock(FALSE, "y")
              \/ /\ last'.op = "check"
                 /\ \E q \in Squeue : check_status(q, "y") /\ ~ConfirmedLive(q)
        /\ (last'.op = "unlock" /\ unlock(FALSE, "n")) => lock' = lock
        /\ (last'.op = "check" /\ \E q \in Squeue : check_status(q, "n")) => lock' = lock
        /\ (last'.op = "check" /\ LockedLive /\ \E answer \in {"y", "n"} :
                check_status("ok", answer)) => lock' = lock
        /\ (last'.op = "check" /\ CheckStatus) =>
              UNCHANGED << nml, script, meta, record, namelist_input, files,
                           nextJob, running, jobFiles >> ]_vars

\* check_status found the lock of a job that is not running and, the operator
\* having answered y, removed it.
C20_Witness ==
    /\ last.op = "check"
    /\ last.out = "NotRunningLockExists"
    /\ ~Exists(lock)
    /\ record # << >>
    /\ running = {}

\* C21: reset is cancel_job followed by the removal of the meta file. A reset
\* that returns leaves no meta file, whatever the lock, the answer of squeue and
\* the outcome of scancel; it removes the lock, and ends the job, exactly when
\* squeue lists the job of the lock and scancel succeeds, and keeps the lock
\* when the job is not listed, squeue fails or scancel fails. reset does not
\* return only when scancel cannot be run for a job that is listed.
C21_ResetCancelsAndDeletesPlan ==
    [][ \A q \in Squeue, sc \in Scancel :
          (last'.op = "reset" /\ reset(q, sc)) =>
            LET live == Exists(lock) /\ q = "ok" /\ lock[1].job_id \in running
            IN  /\ last'.exit = 0 => meta' = NoFile
                /\ last'.exit = 0 <=> ~(live /\ sc = "FileNotFoundError")
                /\ IF live /\ sc = "ok"
                   THEN /\ lock' = NoFile
                        /\ running' = running \ {lock[1].job_id}
                   ELSE /\ lock' = lock
                        /\ running' = running
                /\ UNCHANGED << record, namelist_input, files, nml >> ]_vars

\* A reset on the lock of a job that is not running returned: the plan is gone
\* and the lock is still there.
C21_Witness ==
    /\ last.op = "reset"
    /\ last.out = "NotRunning"
    /\ last.exit = 0
    /\ Exists(lock)
    /\ ~Exists(meta)
    /\ record # << >>

====
